---- MODULE Spec2Model ----
(***************************************************************************)
(* Model of bot.py: the per-file repost loop (loop_processor), message     *)
(* ingestion (handle_message), the admin commands that touch the store or  *)
(* the config, and process start-up with its loop re-activation block.     *)
(*                                                                         *)
(* asyncio runs one coroutine at a time, so the code between two awaits is *)
(* one atomic step.  A loop_processor task can be observed at its awaits:  *)
(* asyncio.sleep (130), delete_message (142), copy_message (152) and       *)
(* delete_message (163).  The copy await is split in two, because the      *)
(* platform creates the copy before the response reaches the process.      *)
(* There is one chat; time is in seconds.                                  *)
(***************************************************************************)
EXTENDS Integers, FiniteSets, Sequences, TLC

\* ---- bounds of the model ----
MaxItems == 2        \* ObjectIds handed out by insert_one
MaxMsg == 3          \* message ids handed out by the platform
MaxTime == 90        \* the clock stops here

\* the clock advances in steps of this many seconds
TickSteps == {30}

\* ---- program constants ----
DefaultDelay == 30
DefaultDuration == 43200
MinDelay == 5
MaxDelay == 300
SecondsPerHour == 3600
SecondsPerMinute == 60

\* one word of context.args: the text of an integer, or a text int() rejects
Num(n) == [isint |-> TRUE, value |-> n]
Word == [isint |-> FALSE, value |-> 0]

\* context.args tried for /setdelay, <<>> for a missing argument
DelayArgs == {<<>>, <<Num(4)>>, <<Num(60)>>, <<Num(301)>>, <<Word>>}

\* context.args tried for /setloopduration: <<[value, unit]>> is the argument
\* "<value><unit>", <<>> a missing argument
DurationArgs == {<<>>, <<[value |-> 1, unit |-> "m"]>>, <<[value |-> 1, unit |-> "s"]>>}

Ids == 1..MaxItems

VARIABLES
    now,          \* datetime.now(), in seconds
    proc,         \* "running", "down" (not started), "aborted" (start-up raised)
    config,       \* what get_config() returns
    loops,        \* loops_collection: _id -> document
    unit,         \* the loop_processor task of each _id
    chat,         \* message ids that exist in the chat
    nextId,       \* next ObjectId
    nextMsg,      \* next message id of the platform
    seenExpired,  \* history: ids whose unit woke with expiration_time < now
    stoppedInCopy, \* history: ids whose row /stopallloops removed while the unit
                  \* was inside copy_message, until that unit reads its row
                  \* again or ends
    copies,       \* history: message id -> number of copies the platform made of it
    failedCopy,   \* history: ids whose copy_message failed with NotFound or Fatal
    reposted,     \* history: old message ids whose delete was issued after a copy
    removed,      \* history: ids whose row was deleted
    tasks,        \* history: _id -> loop_processor tasks created and not finished
    created,      \* history: _id of a stored row -> the expiration_time that
                  \* handle_message computed for it
    botMsgs,      \* history: message ids sent by a bot (this one included)
    content       \* history: message id -> the _id whose file it shows, 0 for none

vars == <<now, proc, config, loops, unit, chat, nextId, nextMsg,
          seenExpired, stoppedInCopy, copies, failedCopy, reposted, removed,
          tasks, created, botMsgs, content>>

\* ---- the store ----

\* get_config() with no stored document
default_config == [repost_delay_seconds |-> DefaultDelay,
                   loop_duration_seconds |-> DefaultDuration]

\* loops_collection.insert_one(new_loop)
InsertOne(lp, i, doc) == [j \in DOMAIN lp \cup {i} |-> IF j = i THEN doc ELSE lp[j]]

\* a delete whose filter matches every row
DeleteOne_all(lp, i) == [j \in {} |-> lp[j]]

\* delete_one whose filter matches nothing
DeleteOne_noop(lp, i) == lp

\* loops_collection.delete_one({"_id": loop_id})
DeleteOne(lp, i) == [j \in DOMAIN lp \ {i} |-> lp[j]]

\* update_one called with upsert=True: a missing row is created
UpdateMessageId_upsert(lp, i, new) ==
    [j \in DOMAIN lp \cup {i} |->
        IF j # i THEN lp[j]
        ELSE IF i \in DOMAIN lp THEN [lp[i] EXCEPT !.current_message_id = new]
        ELSE [current_message_id |-> new, expiration_time |-> 0]]

\* the row replaced by a document made anew, expiration_time included
UpdateMessageId_replace(lp, i, new) ==
    IF i \in DOMAIN lp
    THEN [lp EXCEPT ![i] = [current_message_id |-> new, expiration_time |-> 0]]
    ELSE lp

\* update_one left out: the row keeps the old message id
UpdateMessageId_skip(lp, i, new) == lp

\* loops_collection.update_one({"_id": loop_id}, {"$set": {...}}): no upsert,
\* so a missing row stays missing
UpdateMessageId(lp, i, new) ==
    IF i \in DOMAIN lp THEN [lp EXCEPT ![i].current_message_id = new] ELSE lp

\* delete_many whose filter matches nothing
DeleteMany_none(lp) == lp

\* loops_collection.delete_many({})
DeleteMany(lp) == [j \in {} |-> lp[j]]

\* ---- loop_processor ----

NoUnit == [pc |-> "none", wake |-> 0, message_id |-> 0, new_id |-> 0, err |-> "none"]

\* the delay taken from the default instead of the stored config
Sleeping_default(cfg, t) ==
    [pc |-> "sleep", wake |-> t + DefaultDelay,
     message_id |-> 0, new_id |-> 0, err |-> "none"]

\* lines 127-130: read the config and go to sleep
Sleeping(cfg, t) ==
    [pc |-> "sleep", wake |-> t + cfg.repost_delay_seconds,
     message_id |-> 0, new_id |-> 0, err |-> "none"]

\* the comparison of line 139 the wrong way round
IsExpired_reversed(expiration_time, t) == t < expiration_time

\* line 139
IsExpired(expiration_time, t) == expiration_time < t

Live(i) == unit[i].pc \in {"sleep", "expdel", "copy", "copied", "del"}

LiveUnits == {i \in Ids : Live(i)}

\* message ids the platform has copied
Copied == {m \in 1..MaxMsg : copies[m] > 0}

\* a finished task: "done" left the while loop, "dead" ended with an exception
Ended(how, e) == [NoUnit EXCEPT !.pc = how, !.err = e]

Finished(u) == u.pc \in {"done", "dead"}

\* the task count once the step of task i is taken
TasksAfter(i) == [tasks EXCEPT ![i] = IF Finished(unit'[i]) THEN @ - 1 ELSE @]

\* f on the ids that are in S
Restrict(f, S) == [j \in DOMAIN f \cap S |-> f[j]]

\* the is_bot test left out
Ingests_all(is_bot) == TRUE

\* lines 171-172: is the message taken in
Ingests(is_bot) == ~is_bot

\* the new task bound to the first _id instead of the inserted one
inserted_id_first(i) == 1

\* line 187, result.inserted_id: the _id handed to the new task
inserted_id(i) == i

Init ==
    /\ now = 0
    /\ proc = "running"
    /\ config = default_config
    /\ loops = [j \in {} |-> 0]
    /\ unit = [i \in Ids |-> NoUnit]
    /\ chat = {}
    /\ nextId = 1
    /\ nextMsg = 1
    /\ seenExpired = {}
    /\ stoppedInCopy = {}
    /\ copies = [m \in 1..MaxMsg |-> 0]
    /\ failedCopy = {}
    /\ reposted = {}
    /\ removed = {}
    /\ tasks = [i \in Ids |-> 0]
    /\ created = [j \in {} |-> 0]
    /\ botMsgs = {}
    /\ content = [m \in 1..MaxMsg |-> 0]

\* handle_message: a new message reaches the chat and the bot.  The task made
\* by create_task runs its first piece (lines 126-130: read the config, start
\* the sleep) before the next update is handled, so it is part of this step.
handle_message(is_bot) ==
    /\ proc = "running"
    /\ nextMsg <= MaxMsg
    /\ chat' = chat \cup {nextMsg}
    /\ nextMsg' = nextMsg + 1
    /\ botMsgs' = IF is_bot THEN botMsgs \cup {nextMsg} ELSE botMsgs
    /\ IF ~Ingests(is_bot)
       THEN UNCHANGED <<loops, unit, nextId, tasks, created, content>>
       ELSE /\ nextId <= MaxItems
            /\ loops' = InsertOne(loops, nextId,
                            [current_message_id |-> nextMsg,
                             expiration_time |-> now + config.loop_duration_seconds])
            /\ unit' = [unit EXCEPT ![inserted_id(nextId)] = Sleeping(config, now)]
            /\ tasks' = [tasks EXCEPT ![inserted_id(nextId)] = @ + 1]
            /\ created' = Restrict(InsertOne(created, nextId,
                                             now + config.loop_duration_seconds),
                                   DOMAIN loops')
            /\ content' = [content EXCEPT ![nextMsg] = nextId]
            /\ nextId' = nextId + 1
    /\ UNCHANGED <<now, proc, config,
                   seenExpired, stoppedInCopy, copies, failedCopy, reposted, removed>>

\* loop_processor, lines 130-152: the sleep is over, read the row and branch
UnitWake(i) ==
    /\ proc = "running"
    /\ unit[i].pc = "sleep"
    /\ now >= unit[i].wake
    /\ IF i \notin DOMAIN loops
       THEN /\ unit' = [unit EXCEPT ![i] = Ended("done", "none")]
            /\ UNCHANGED seenExpired
       ELSE /\ unit' = [unit EXCEPT ![i] =
                          [NoUnit EXCEPT
                             !.pc = IF IsExpired(loops[i].expiration_time, now)
                                    THEN "expdel" ELSE "copy",
                             !.message_id = loops[i].current_message_id]]
            /\ seenExpired' = IF loops[i].expiration_time < now
                              THEN seenExpired \cup {i} ELSE seenExpired
    /\ tasks' = TasksAfter(i)
    /\ stoppedInCopy' = stoppedInCopy \ {i}
    /\ UNCHANGED <<now, proc, config, loops, chat, nextId, nextMsg,
                   copies, failedCopy, reposted, removed,
                   created, botMsgs, content>>

\* outcomes of bot.delete_message: "ok" removes the message; "BadRequest",
\* the error the code catches, says the message is not there (somebody else
\* may have deleted it before the call was served); "Error" is any other
\* telegram error and leaves the chat as it is
DeleteResults == {"ok", "BadRequest", "Error"}

\* can delete_message(m) end with res in this chat
DeleteCan(res, m) == res = "ok" => m \in chat

\* the chat after delete_message(m) ended with res
ChatAfterDelete(res, m) == IF res = "Error" THEN chat ELSE chat \ {m}

\* a try block that catches nothing
DeleteCaught_ok(res) == res = "ok"

\* lines 141-143 and 162-164, try: delete_message / except BadRequest: pass:
\* does the code after the try block run
DeleteCaught(res) == res \in {"ok", "BadRequest"}

\* lines 141-145: the row and the task after the final delete_message
ExpiredDeleteOutcome(i, res) ==
    IF DeleteCaught(res)
    THEN [loops |-> DeleteOne(loops, i), unit |-> Ended("done", "none")]
    ELSE [loops |-> loops, unit |-> Ended("dead", "none")]

\* lines 160-164, then the pending break or lines 126-130: the task after
\* the delete_message of the old message
RepostDeleteOutcome(i, res) ==
    IF ~DeleteCaught(res) THEN Ended("dead", unit[i].err)
    ELSE IF unit[i].err # "none" THEN Ended("done", unit[i].err)
    ELSE Sleeping(config, now)

\* loop_processor, lines 141-145: the final delete_message returns
ExpiredDeleteReturn(i, res) ==
    /\ proc = "running"
    /\ unit[i].pc = "expdel"
    /\ DeleteCan(res, unit[i].message_id)
    /\ chat' = ChatAfterDelete(res, unit[i].message_id)
    /\ loops' = ExpiredDeleteOutcome(i, res).loops
    /\ unit' = [unit EXCEPT ![i] = ExpiredDeleteOutcome(i, res).unit]
    /\ removed' = IF DeleteCaught(res) THEN removed \cup {i} ELSE removed
    /\ tasks' = TasksAfter(i)
    /\ created' = Restrict(created, DOMAIN loops')
    /\ UNCHANGED <<now, proc, config, nextId, nextMsg,
                   seenExpired, stoppedInCopy, copies, failedCopy, reposted,
                   botMsgs, content>>

\* bot.copy_message, line 152: the platform makes the copy
PlatformCopy(i) ==
    /\ proc = "running"
    /\ unit[i].pc = "copy"
    /\ unit[i].message_id \in chat
    /\ nextMsg <= MaxMsg
    /\ chat' = chat \cup {nextMsg}
    /\ nextMsg' = nextMsg + 1
    /\ unit' = [unit EXCEPT ![i].pc = "copied", ![i].new_id = nextMsg]
    /\ copies' = [copies EXCEPT ![unit[i].message_id] = @ + 1]
    /\ botMsgs' = botMsgs \cup {nextMsg}
    /\ content' = [content EXCEPT ![nextMsg] = content[unit[i].message_id]]
    /\ UNCHANGED <<now, proc, config, loops, nextId,
                   seenExpired, stoppedInCopy, failedCopy, reposted, removed,
                   tasks, created>>

\* loop_processor, lines 152-154 and 160-163: copy_message returns the new
\* message, the row is updated, the delete of the old message is issued
CopyReturn(i) ==
    /\ proc = "running"
    /\ unit[i].pc = "copied"
    /\ loops' = UpdateMessageId(loops, i, unit[i].new_id)
    /\ unit' = [unit EXCEPT ![i].pc = "del"]
    /\ reposted' = reposted \cup {unit[i].message_id}
    /\ created' = Restrict(created, DOMAIN loops')
    /\ UNCHANGED <<now, proc, config, chat, nextId, nextMsg,
                   seenExpired, stoppedInCopy, copies, failedCopy, removed,
                   tasks, botMsgs, content>>

\* errors of bot.copy_message: "NotFound" says the source message is not
\* there (somebody else may have deleted it before the call was served)
CopyErrors == {"NotFound", "Transient", "Fatal"}

\* loop_processor, lines 155-163: copy_message raises, the row is deleted,
\* and the finally clause issues the delete of the old message before the break
CopyFail(i, e) ==
    /\ proc = "running"
    /\ unit[i].pc \in {"copy", "copied"}
    /\ e \in {"NotFound", "Fatal"} => unit[i].pc = "copy"
    /\ chat' = IF e = "NotFound" THEN chat \ {unit[i].message_id} ELSE chat
    /\ loops' = DeleteOne(loops, i)
    /\ unit' = [unit EXCEPT ![i].pc = "del", ![i].err = e]
    /\ failedCopy' = IF e \in {"NotFound", "Fatal"}
                     THEN failedCopy \cup {i} ELSE failedCopy
    /\ removed' = removed \cup {i}
    /\ created' = Restrict(created, DOMAIN loops')
    /\ UNCHANGED <<now, proc, config, nextId, nextMsg,
                   seenExpired, stoppedInCopy, copies, reposted,
                   tasks, botMsgs, content>>

\* loop_processor, lines 160-164 and 126-130: delete_message of the old
\* message returns; then the pending break, or the next cycle's sleep
RepostDeleteReturn(i, res) ==
    /\ proc = "running"
    /\ unit[i].pc = "del"
    /\ DeleteCan(res, unit[i].message_id)
    /\ chat' = ChatAfterDelete(res, unit[i].message_id)
    /\ unit' = [unit EXCEPT ![i] = RepostDeleteOutcome(i, res)]
    /\ tasks' = TasksAfter(i)
    /\ stoppedInCopy' = IF Finished(unit'[i]) THEN stoppedInCopy \ {i}
                        ELSE stoppedInCopy
    /\ UNCHANGED <<now, proc, config, loops, nextId, nextMsg,
                   seenExpired, copies, failedCopy, reposted, removed,
                   created, botMsgs, content>>

\* setdelay_command without the range test of line 98
setdelay_config_unchecked(cfg, args) ==
    IF Len(args) = 0 \/ ~args[1].isint THEN cfg
    ELSE [cfg EXCEPT !.repost_delay_seconds = args[1].value]

\* setdelay_command, lines 96-101: the config after the command
setdelay_config(cfg, args) ==
    IF Len(args) = 0 \/ ~args[1].isint THEN cfg
    ELSE IF ~(MinDelay <= args[1].value /\ args[1].value <= MaxDelay) THEN cfg
    ELSE [cfg EXCEPT !.repost_delay_seconds = args[1].value]

\* setdelay_command, sent by an admin with any of the arguments tried
setdelay_command ==
    /\ proc = "running"
    /\ config' \in {setdelay_config(config, args) : args \in DelayArgs}
    /\ UNCHANGED <<now, proc, loops, unit, chat, nextId, nextMsg,
                   seenExpired, stoppedInCopy, copies, failedCopy, reposted, removed,
                   tasks, created, botMsgs, content>>

\* setloopduration_command, lines 81-91: the config after the command
setloopduration_config(cfg, args) ==
    IF Len(args) = 0 THEN cfg
    ELSE IF args[1].unit = "h"
         THEN [cfg EXCEPT !.loop_duration_seconds = args[1].value * SecondsPerHour]
    ELSE IF args[1].unit = "m"
         THEN [cfg EXCEPT !.loop_duration_seconds = args[1].value * SecondsPerMinute]
    ELSE cfg

\* setloopduration_command, sent by an admin with any of the arguments tried
setloopduration_command ==
    /\ proc = "running"
    /\ config' \in {setloopduration_config(config, args) : args \in DurationArgs}
    /\ UNCHANGED <<now, proc, loops, unit, chat, nextId, nextMsg,
                   seenExpired, stoppedInCopy, copies, failedCopy, reposted, removed,
                   tasks, created, botMsgs, content>>

\* stopallloops_command, sent by an admin
stopallloops_command ==
    /\ proc = "running"
    /\ loops' = DeleteMany(loops)
    /\ stoppedInCopy' = stoppedInCopy \cup
            {i \in DOMAIN loops : unit[i].pc \in {"copy", "copied"}}
    /\ removed' = removed \cup DOMAIN loops
    /\ created' = Restrict(created, DOMAIN loops')
    /\ UNCHANGED <<now, proc, config, unit, chat, nextId, nextMsg,
                   seenExpired, copies, failedCopy, reposted,
                   tasks, botMsgs, content>>

\* the clock
Tick ==
    /\ \E d \in TickSteps : now + d <= MaxTime /\ now' = now + d
    /\ UNCHANGED <<proc, config, loops, unit, chat, nextId, nextMsg,
                   seenExpired, stoppedInCopy, copies, failedCopy, reposted, removed,
                   tasks, created, botMsgs, content>>

\* the process stops at any point; its tasks are gone, the database stays
Crash ==
    /\ proc = "running"
    /\ proc' = "down"
    /\ unit' = [i \in Ids |-> NoUnit]
    /\ tasks' = [i \in Ids |-> 0]
    /\ stoppedInCopy' = {}
    /\ UNCHANGED <<now, config, loops, chat, nextId, nextMsg,
                   seenExpired, copies, failedCopy, reposted, removed,
                   created, botMsgs, content>>

\* start-up that does attach a task to every stored row
StartupResult_spawn(lp) ==
    [proc |-> "running",
     unit |-> [i \in Ids |-> IF i \in DOMAIN lp
                              THEN [pc |-> "sleep", wake |-> 0, message_id |-> 0,
                                    new_id |-> 0, err |-> "none"]
                              ELSE [pc |-> "none", wake |-> 0, message_id |-> 0,
                                    new_id |-> 0, err |-> "none"]]]

\* __main__, lines 224-238.  asyncio.create_task is called before
\* asyncio.run(main()), with no running event loop: it raises RuntimeError
\* on the first row, no task exists and main() is never reached.
StartupResult(lp) ==
    IF DOMAIN lp = {}
    THEN [proc |-> "running", unit |-> [i \in Ids |-> NoUnit]]
    ELSE [proc |-> "aborted", unit |-> [i \in Ids |-> NoUnit]]

\* the process is started
Startup ==
    /\ proc = "down"
    /\ proc' = StartupResult(loops).proc
    /\ unit' = StartupResult(loops).unit
    /\ tasks' = [i \in Ids |-> IF unit'[i].pc = "none" THEN 0 ELSE 1]
    /\ UNCHANGED <<now, config, loops, chat, nextId, nextMsg,
                   seenExpired, stoppedInCopy, copies, failedCopy, reposted, removed,
                   created, botMsgs, content>>

Next ==
    \/ \E is_bot \in BOOLEAN : handle_message(is_bot)
    \/ \E i \in Ids : UnitWake(i)
    \/ \E i \in Ids, res \in DeleteResults : ExpiredDeleteReturn(i, res)
    \/ \E i \in Ids : PlatformCopy(i)
    \/ \E i \in Ids : CopyReturn(i)
    \/ \E i \in Ids, e \in CopyErrors : CopyFail(i, e)
    \/ \E i \in Ids, res \in DeleteResults : RepostDeleteReturn(i, res)
    \/ setdelay_command
    \/ setloopduration_command
    \/ stopallloops_command
    \/ Tick
    \/ Crash
    \/ Startup

Spec == Init /\ [][Next]_vars

\* ---------------------------------------------------------------------
\* Properties
\* ---------------------------------------------------------------------

\* C1: a unit that woke and read its row with expiration_time < now issues
\* no copy_message for that item, in that cycle or later.
C1_NoRepostAfterExpiry ==
    \A i \in seenExpired : unit[i].pc \notin {"copy", "copied", "del"}

\* an item was seen expired, its message deleted and its row removed
C1_Witness ==
    \E i \in seenExpired :
        /\ unit[i].pc = "done"
        /\ i \notin DOMAIN loops
        /\ i \notin failedCopy

\* C2: a unit that wakes with now >= expiration_time (now = expiration_time
\* included) takes the Expired path and issues no copy_message.
C2_ExpiredAtDeadline ==
    [][\A i \in Ids :
          (/\ unit[i].pc = "sleep"
           /\ unit'[i].pc \notin {"sleep", "none"}
           /\ i \in DOMAIN loops
           /\ now >= loops[i].expiration_time)
          => unit'[i].pc = "expdel"]_vars

\* C3 as stated: once the row is removed from outside, the unit issues no
\* copy_message and no delete_message, and exits at its next row read.
C3_NoActionAfterCancel ==
    [][\A i \in removed :
          /\ unit'[i].pc \in {"copy", "expdel", "del"} => unit'[i].pc = unit[i].pc
          /\ (unit[i].pc = "sleep" /\ unit'[i].pc # "sleep")
                => unit'[i].pc \in {"done", "none"}]_vars

\* C3 amended: once the row is removed, the unit issues no copy_message and
\* exits at its next row read; it issues no delete_message either, except
\* that a unit whose copy_message was in flight when the row was removed
\* still issues the delete of the old message when that call ends.
C3_CancelledUnit ==
    [][\A i \in removed :
          /\ unit'[i].pc = "copy" => unit[i].pc = "copy"
          /\ unit'[i].pc = "expdel" => unit[i].pc = "expdel"
          /\ (unit'[i].pc = "del" /\ unit[i].pc # "del")
                => (unit[i].pc \in {"copy", "copied"} /\ i \in stoppedInCopy)
          /\ (unit[i].pc = "sleep" /\ unit'[i].pc # "sleep")
                => unit'[i].pc \in {"done", "none"}]_vars

\* a unit whose row was removed during its copy_message has finished that
\* cycle and is in the sleep that ends with the row read
C3_Witness ==
    \E i \in stoppedInCopy : unit[i].pc = "sleep"

\* C4: a row that has been removed is in the store in no later state,
\* whatever its unit writes afterwards.
C4_NoResurrectedRow ==
    \A i \in removed : i \notin DOMAIN loops

\* the row was removed between the unit's row read and its update_one, and
\* the update_one has run
C4_Witness ==
    \E i \in stoppedInCopy :
        /\ unit[i].pc = "del"
        /\ unit[i].err = "none"
        /\ i \notin DOMAIN loops

\* C5: a start of the process leaves it running with exactly one live unit
\* for each row of the store.
C5_Recovery ==
    [][(proc = "down" /\ proc' # "down")
          => (proc' = "running" /\ LiveUnits' = DOMAIN loops')]_vars

C7_UpdateBeforeDelete ==
    \A i \in DOMAIN loops :
        /\ loops[i].current_message_id \notin reposted
        /\ (unit[i].pc = "del" /\ unit[i].err = "none")
              => loops[i].current_message_id = unit[i].new_id

\* the process stopped after the update and before the old message was
\* deleted: the row names the new message, the old one is still in the chat
C7_Witness ==
    /\ proc = "down"
    /\ \E i \in DOMAIN loops :
          /\ loops[i].current_message_id \in chat
          /\ \E m \in reposted : m \in chat /\ copies[m] = 1

\* C8: on a repost cycle delete_message is issued for the old message only
\* after copy_message succeeded in that cycle.
C8_DeleteOnlyAfterCopy ==
    \A i \in Ids : unit[i].pc = "del" => unit[i].err = "none"

\* C9: after copy_message failed with NotFound or Fatal the row is gone, and
\* the unit only finishes the cycle and ends: no copy_message is issued again.
C9_CopyFailureRetires ==
    \A i \in failedCopy :
        /\ i \notin DOMAIN loops
        /\ unit[i].pc \in {"del", "done", "dead", "none"}

\* a unit has left the loop after a Fatal copy error
C9_Witness ==
    \E i \in failedCopy : unit[i].pc = "done" /\ unit[i].err = "Fatal"

\* C10: when copy_message fails with a Transient error the row stays as it
\* is and the unit does not end.
C10_TransientRetried ==
    [][\A i \in Ids :
          (/\ unit[i].pc \in {"copy", "copied"}
           /\ unit'[i].err = "Transient"
           /\ i \in DOMAIN loops)
          => (/\ i \in DOMAIN loops'
              /\ loops'[i] = loops[i]
              /\ unit'[i].pc \notin {"done", "dead"})]_vars

\* C11: on the expired path and on the repost path, a delete_message that
\* fails with NotFound (BadRequest) leaves the store and the unit exactly as
\* a successful delete does: on expiry the row is removed and the unit has
\* left its loop; after a repost the unit starts the next cycle's sleep (or
\* takes the pending break); the delete is not retried, the unit does not die.
C11_IdempotentDelete ==
    \A i \in Ids :
        /\ unit[i].pc = "expdel" =>
              /\ ExpiredDeleteOutcome(i, "BadRequest") = ExpiredDeleteOutcome(i, "ok")
              /\ i \notin DOMAIN ExpiredDeleteOutcome(i, "BadRequest").loops
              /\ ExpiredDeleteOutcome(i, "BadRequest").unit.pc = "done"
        /\ unit[i].pc = "del" =>
              /\ RepostDeleteOutcome(i, "BadRequest") = RepostDeleteOutcome(i, "ok")
              /\ RepostDeleteOutcome(i, "BadRequest").pc =
                    IF unit[i].err = "none" THEN "sleep" ELSE "done"

\* the final delete of one item and the delete after a repost of another are
\* both in flight, and each can end with NotFound as well as with success
C11_Witness ==
    \E i, j \in Ids :
        /\ unit[i].pc = "expdel"
        /\ unit[j].pc = "del" /\ unit[j].err = "none"
        /\ \A res \in {"ok", "BadRequest"} :
              DeleteCan(res, unit[i].message_id) /\ DeleteCan(res, unit[j].message_id)

\* C12: handle_message inserts no row and starts no unit for a message sent
\* by a bot: the rows ever inserted are never more than the messages that
\* were not sent by a bot (the engine's own reposts are bot messages), and a
\* bot message shows a stored file only if it is a repost.
C12_NoBotIngestion ==
    /\ nextId - 1 <= (nextMsg - 1) - Cardinality(botMsgs)
    /\ \A m \in botMsgs :
          content[m] # 0 => \E src \in Copied : src < m /\ content[src] = content[m]

\* a message of another bot and a repost of the engine are both in the chat
C12_Witness ==
    /\ \E m \in botMsgs \cap chat : content[m] = 0
    /\ \E i \in DOMAIN loops : loops[i].current_message_id \in botMsgs

\* C13: a sleep that starts lasts the repost_delay_seconds stored in the
\* config at that moment; a sleep in flight keeps its wake-up time whatever
\* /setdelay does meanwhile; the next sleep uses the value stored by then.
C13_SleepUsesStoredDelay ==
    [][\A i \in Ids :
          /\ (unit[i].pc # "sleep" /\ unit'[i].pc = "sleep")
                => unit'[i].wake = now + config.repost_delay_seconds
          /\ (unit[i].pc = "sleep" /\ unit'[i].pc = "sleep")
                => unit'[i].wake = unit[i].wake]_vars

\* /setdelay 60 was handled during the first sleep of one item, which keeps
\* its wake-up time; the sleep of the item taken in afterwards lasts 60 s
C13_Witness ==
    \E i, j \in Ids :
        /\ config.repost_delay_seconds = 60
        /\ now = 0
        /\ unit[i].pc = "sleep" /\ unit[i].wake = 30
        /\ unit[j].pc = "sleep" /\ unit[j].wake = 60

\* C14: no _id has two loop_processor tasks: the tasks created for an _id
\* and not finished are one if the unit is live, none otherwise.
C14_OneUnitPerItem ==
    \A i \in Ids : tasks[i] = IF Live(i) THEN 1 ELSE 0

\* two items are tracked at once, each by its own task
C14_Witness ==
    /\ proc = "running"
    /\ Cardinality(LiveUnits) = 2
    /\ \A i \in LiveUnits : tasks[i] = 1

\* C15: while the process runs, every stored row has a live unit; no unit
\* ends and leaves its row behind.
C15_NoOrphanRows ==
    proc = "running" => \A i \in DOMAIN loops : Live(i)

\* C16: an item whose unit has ended has been retired: its row is gone.
C16_EndedMeansRetired ==
    \A i \in Ids : Finished(unit[i]) => i \notin DOMAIN loops

\* C17: while the process runs, for a stored row whose unit is not between
\* the copy and the delete of the old message, current_message_id is in the
\* chat and no other message in the chat shows the item.
C17_SingleVisibleCopy ==
    proc = "running" =>
        \A i \in DOMAIN loops :
            unit[i].pc \notin {"copied", "del"} =>
                /\ loops[i].current_message_id \in chat
                /\ \A m \in chat : content[m] = i => m = loops[i].current_message_id

\* C18: a step of the unit of one item, failures included, leaves the rows
\* and the units of all other items as they were.
C18_RowIndependence ==
    [][\A i \in Ids :
          (Live(i) /\ unit'[i] # unit[i] /\ proc' = "running") =>
              \A j \in Ids \ {i} :
                  /\ unit'[j] = unit[j]
                  /\ j \in DOMAIN loops <=> j \in DOMAIN loops'
                  /\ j \in DOMAIN loops => loops'[j] = loops[j]]_vars

\* the unit of one item ended on a failed copy_message, the other item has
\* its row and its live unit
C18_Witness ==
    \E i, j \in Ids :
        /\ i # j
        /\ i \in failedCopy /\ Finished(unit[i])
        /\ j \in DOMAIN loops /\ Live(j)

\* C19: the expiration_time of a stored row is the one handle_message
\* computed, now + loop_duration_seconds at ingestion: reposts and later
\* /setloopduration and /setdelay commands leave it alone.
C19_ExpirationFixed ==
    \A i \in DOMAIN loops :
        i \in DOMAIN created /\ loops[i].expiration_time = created[i]

\* a row taken in under the default duration has been reposted, and both
\* settings were changed afterwards
C19_Witness ==
    \E i \in DOMAIN loops :
        /\ loops[i].current_message_id \in botMsgs
        /\ loops[i].expiration_time = DefaultDuration
        /\ config.loop_duration_seconds = 60
        /\ config.repost_delay_seconds = 60

\* C20: the stored repost_delay_seconds is always within 5..300, and
\* /setdelay with a missing, non-integer or out-of-range argument leaves the
\* config as it is.
C20_DelayBounded ==
    /\ 5 <= config.repost_delay_seconds /\ config.repost_delay_seconds <= 300
    /\ \A args \in DelayArgs :
          (Len(args) = 0 \/ ~args[1].isint \/ args[1].value < 5 \/ args[1].value > 300)
              => setdelay_config(config, args) = config

\* a /setdelay with an argument in range has replaced the default
C20_Witness ==
    /\ proc = "running"
    /\ config.repost_delay_seconds # DefaultDelay

====
